---- MODULE Spec2Model ----
(***************************************************************************)
(* Model of the HTTP relay of src/main.rs: handle_request and its helpers  *)
(* is_json_content_type, read_body, parse_json, forward_to_external_api.   *)
(* Every request is one asynchronous task; the actions are the segments of *)
(* the task between two await points.  Bytes are sequences of one-char     *)
(* strings; the JSON text <-> value conversions of serde_json are modelled *)
(* as a recursive-descent parser and two printers (compact and pretty).    *)
(***************************************************************************)
EXTENDS Integers, Sequences, FiniteSets

\* ------------------------------------------------------------------ bounds
NumReqs == 2    \* number of requests the server accepts in one behaviour
MaxLen == 1     \* every byte string over BodyChars up to this length is a body

\* ------------------------------------------------------------ JSON values
\* serde_json::Value as a tagged record [t, v]:
\*   null/bool  [t |-> "lit", v |-> <<chars of the literal>>]
\*   number     [t |-> "num", v |-> n]
\*   string     [t |-> "str", v |-> <<chars>>]
\*   array      [t |-> "arr", v |-> <<values>>]
\*   object     [t |-> "obj", v |-> <<[k |-> key, val |-> value], ...>>], keys ascending
QUOTE == "\""
NL == "\n"
Ws == {" ", NL}
Digit == {"0", "1"}
DigitChar == <<"0", "1", "2", "3", "4", "5", "6", "7", "8", "9">>
DigitVal(c) == CHOOSE d \in 0..9 : DigitChar[d + 1] = c
\* byte values of the characters the model uses (key order of an object)
CharCode(c) ==
    CASE c = NL -> 10 [] c = " " -> 32 [] c = QUOTE -> 34 [] c = "," -> 44
      [] c = "0" -> 48 [] c = "1" -> 49 [] c = ":" -> 58 [] c = "<" -> 60
      [] c = "[" -> 91 [] c = "]" -> 93 [] c = "a" -> 97 [] c = "b" -> 98
      [] c = "d" -> 100 [] c = "e" -> 101 [] c = "f" -> 102 [] c = "l" -> 108
      [] c = "n" -> 110 [] c = "r" -> 114 [] c = "s" -> 115 [] c = "t" -> 116
      [] c = "u" -> 117 [] c = "{" -> 123 [] c = "}" -> 125

Lit(s) == [t |-> "lit", v |-> s]
Num(n) == [t |-> "num", v |-> n]
Str(s) == [t |-> "str", v |-> s]
Arr(s) == [t |-> "arr", v |-> s]
Obj(s) == [t |-> "obj", v |-> s]

RECURSIVE KeyLess(_, _)
KeyLess(a, b) ==
    IF b = <<>> THEN FALSE
    ELSE IF a = <<>> THEN TRUE
    ELSE IF CharCode(Head(a)) # CharCode(Head(b)) THEN CharCode(Head(a)) < CharCode(Head(b))
    ELSE KeyLess(Tail(a), Tail(b))

\* Map::insert of serde_json (a BTreeMap): a repeated key keeps the last value
RECURSIVE MapInsert(_, _, _)
MapInsert(m, k, val) ==
    IF m = <<>> THEN <<[k |-> k, val |-> val]>>
    ELSE IF Head(m).k = k THEN <<[k |-> k, val |-> val]>> \o Tail(m)
    ELSE IF KeyLess(k, Head(m).k) THEN <<[k |-> k, val |-> val]>> \o m
    ELSE <<Head(m)>> \o MapInsert(Tail(m), k, val)

\* ----------------------------------------------------- serde_json parser
POk(val, pos) == [ok |-> TRUE, val |-> val, pos |-> pos]
PErr == [ok |-> FALSE, val |-> Lit(<<>>), pos |-> 0]

\* first position >= i that holds no whitespace (Len(s) + 1 at the end)
SkipWs(s, i) ==
    LET js == {j \in i..(Len(s) + 1) : j = Len(s) + 1 \/ s[j] \notin Ws}
    IN  CHOOSE j \in js : \A k \in js : j <= k

\* first position >= i that holds no digit
DigitsEnd(s, i) ==
    LET js == {j \in i..(Len(s) + 1) : j = Len(s) + 1 \/ s[j] \notin Digit}
    IN  CHOOSE j \in js : \A k \in js : j <= k

RECURSIVE DigitsValue(_, _, _)
DigitsValue(s, i, j) ==
    IF j < i THEN 0 ELSE 10 * DigitsValue(s, i, j - 1) + DigitVal(s[j])

\* a number starting at s[i], a digit: a leading 0 followed by a digit is an error
ParseNumber(s, i) ==
    LET e == DigitsEnd(s, i)
    IN  IF s[i] = "0" /\ e > i + 1 THEN PErr
        ELSE POk(Num(DigitsValue(s, i, e - 1)), e)

\* a string whose opening quote is s[i - 1]: up to the next quote, no control character
ParseString(s, i) ==
    LET qs == {j \in i..Len(s) : s[j] = QUOTE}
    IN  IF qs = {} THEN PErr
        ELSE LET q == CHOOSE j \in qs : \A k \in qs : j <= k
             IN  IF \E j \in i..(q - 1) : s[j] = NL THEN PErr
                 ELSE POk(Str(SubSeq(s, i, q - 1)), q + 1)

\* one of the literals null, true, false at s[i]
ParseLit(s, i) ==
    LET lits == {l \in {<<"n", "u", "l", "l">>, <<"t", "r", "u", "e">>,
                        <<"f", "a", "l", "s", "e">>} :
                    /\ i + Len(l) - 1 <= Len(s)
                    /\ SubSeq(s, i, i + Len(l) - 1) = l}
    IN  IF lits = {} THEN PErr
        ELSE LET l == CHOOSE x \in lits : TRUE IN POk(Lit(l), i + Len(l))

RECURSIVE ParseValue(_, _), ParseElems(_, _, _), ParseMembers(_, _, _)
ParseValue(s, i) ==
    LET j == SkipWs(s, i)
    IN  IF j > Len(s) THEN PErr
        ELSE IF s[j] \in Digit THEN ParseNumber(s, j)
        ELSE IF s[j] = QUOTE THEN ParseString(s, j + 1)
        ELSE IF s[j] = "[" THEN
            LET k == SkipWs(s, j + 1)
            IN  IF k <= Len(s) /\ s[k] = "]" THEN POk(Arr(<<>>), k + 1)
                ELSE ParseElems(s, k, <<>>)
        ELSE IF s[j] = "{" THEN
            LET k == SkipWs(s, j + 1)
            IN  IF k <= Len(s) /\ s[k] = "}" THEN POk(Obj(<<>>), k + 1)
                ELSE ParseMembers(s, k, <<>>)
        ELSE ParseLit(s, j)

\* the elements of an array after "[" or ",", up to the closing "]"
ParseElems(s, i, acc) ==
    LET r == ParseValue(s, i)
    IN  IF ~r.ok THEN PErr
        ELSE LET k == SkipWs(s, r.pos)
             IN  IF k > Len(s) THEN PErr
                 ELSE IF s[k] = "," THEN ParseElems(s, k + 1, Append(acc, r.val))
                 ELSE IF s[k] = "]" THEN POk(Arr(Append(acc, r.val)), k + 1)
                 ELSE PErr

\* the members of an object after "{" or ",", up to the closing "}"
ParseMembers(s, i, acc) ==
    LET j == SkipWs(s, i)
    IN  IF j > Len(s) \/ s[j] # QUOTE THEN PErr
        ELSE LET key == ParseString(s, j + 1)
             IN  IF ~key.ok THEN PErr
                 ELSE LET c == SkipWs(s, key.pos)
                      IN  IF c > Len(s) \/ s[c] # ":" THEN PErr
                          ELSE LET r == ParseValue(s, c + 1)
                               IN  IF ~r.ok THEN PErr
                                   ELSE LET k == SkipWs(s, r.pos)
                                            m == MapInsert(acc, key.val.v, r.val)
                                        IN  IF k > Len(s) THEN PErr
                                            ELSE IF s[k] = "," THEN ParseMembers(s, k + 1, m)
                                            ELSE IF s[k] = "}" THEN POk(Obj(m), k + 1)
                                            ELSE PErr

\* serde_json::from_slice: one value, then only whitespace up to the end
FromSlice(s) ==
    LET r == ParseValue(s, 1)
    IN  IF r.ok /\ SkipWs(s, r.pos) = Len(s) + 1 THEN r ELSE PErr

\* --------------------------------------------------- serde_json printers
RECURSIVE Digits(_)
Digits(n) == IF n < 10 THEN <<DigitChar[n + 1]>> ELSE Digits(n \div 10) \o <<DigitChar[(n % 10) + 1]>>

RECURSIVE Spaces(_)
Spaces(n) == IF n = 0 THEN <<>> ELSE <<" ">> \o Spaces(n - 1)

\* serde_json::to_vec (CompactFormatter)
RECURSIVE ToVec(_), ElemsToString(_), MembersToString(_)
ToVec(v) ==
    CASE v.t = "lit" -> v.v
      [] v.t = "num" -> Digits(v.v)
      [] v.t = "str" -> <<QUOTE>> \o v.v \o <<QUOTE>>
      [] v.t = "arr" -> <<"[">> \o ElemsToString(v.v) \o <<"]">>
      [] v.t = "obj" -> <<"{">> \o MembersToString(v.v) \o <<"}">>
ElemsToString(es) ==
    IF es = <<>> THEN <<>>
    ELSE ToVec(Head(es)) \o (IF Len(es) > 1 THEN <<",">> ELSE <<>>) \o ElemsToString(Tail(es))
MembersToString(ms) ==
    IF ms = <<>> THEN <<>>
    ELSE <<QUOTE>> \o Head(ms).k \o <<QUOTE, ":">> \o ToVec(Head(ms).val)
         \o (IF Len(ms) > 1 THEN <<",">> ELSE <<>>) \o MembersToString(Tail(ms))

\* serde_json::to_string_pretty (PrettyFormatter, indent of two spaces)
RECURSIVE PrettyAt(_, _), ElemsPretty(_, _), MembersPretty(_, _)
PrettyAt(v, lvl) ==
    CASE v.t = "lit" -> v.v
      [] v.t = "num" -> Digits(v.v)
      [] v.t = "str" -> <<QUOTE>> \o v.v \o <<QUOTE>>
      [] v.t = "arr" ->
            IF v.v = <<>> THEN <<"[", "]">>
            ELSE <<"[">> \o ElemsPretty(v.v, lvl + 1) \o <<NL>> \o Spaces(2 * lvl) \o <<"]">>
      [] v.t = "obj" ->
            IF v.v = <<>> THEN <<"{", "}">>
            ELSE <<"{">> \o MembersPretty(v.v, lvl + 1) \o <<NL>> \o Spaces(2 * lvl) \o <<"}">>
ElemsPretty(es, lvl) ==
    IF es = <<>> THEN <<>>
    ELSE <<NL>> \o Spaces(2 * lvl) \o PrettyAt(Head(es), lvl)
         \o (IF Len(es) > 1 THEN <<",">> ELSE <<>>) \o ElemsPretty(Tail(es), lvl)
MembersPretty(ms, lvl) ==
    IF ms = <<>> THEN <<>>
    ELSE <<NL>> \o Spaces(2 * lvl) \o <<QUOTE>> \o Head(ms).k \o <<QUOTE, ":", " ">>
         \o PrettyAt(Head(ms).val, lvl)
         \o (IF Len(ms) > 1 THEN <<",">> ELSE <<>>) \o MembersPretty(Tail(ms), lvl)

\* Result<String>: the serializer of a Value into a String has no failing case
ToStringPretty(v) == [ok |-> TRUE, s |-> PrettyAt(v, 0)]

\* ------------------------------------------------------------ the inputs
Reqs == 1..NumReqs
Methods == {"GET", "POST"}
Paths == {"/hello", "/hello/"}
\* the value of headers().get("content-type"): <<>> for None, <<v>> for Some(v)
ContentTypes == {<<>>, <<"application/json">>, <<"application/json; charset=utf-8">>}
Requests == [method : Methods, path : Paths, ctype : ContentTypes]

BodyChars == {"[", "]"}
RECURSIVE SeqsUpTo(_, _)
SeqsUpTo(S, n) ==
    IF n = 0 THEN {<<>>}
    ELSE LET shorter == SeqsUpTo(S, n - 1)
         IN  shorter \cup {Append(s, c) : s \in {t \in shorter : Len(t) = n - 1}, c \in S}
\* an object and a scalar besides the short byte strings
SampleBodies ==
    { <<"{", QUOTE, "a", QUOTE, ":", "1", "}">>,
      <<"1">> }
Bodies == SeqsUpTo(BodyChars, MaxLen) \cup SampleBodies

\* what send() can fail with, as the text "{}" formats it
NetErrors == {<<"d", "n", "s">>}
\* the status line of the upstream's answer; send() is Ok for any of them
UpstreamStatuses == {200, 500}
\* the upstream's answer to the bytes it received: an echo of them, or no JSON
EchoReply(wire) == <<"{", QUOTE, "d", "a", "t", "a", QUOTE, ":">> \o wire \o <<"}">>
UpstreamBodies(wire) == {EchoReply(wire), <<"<">>}

\* -------------------------------------------------------------- the state
VARIABLES
    pc,         \* pc[r]: where the task of request r is
    req,        \* req[r]: method, path and content-type of request r
    body,       \* body[r]: what reading the body of r gave
    data,       \* data[r]: <<v>> once the body of r is parsed into the value v
    sent,       \* sent[r]: the bodies of the outbound POSTs made for r, in order
    upstream,   \* upstream[r]: what the upstream answered to the POST made for r
    resp        \* resp[r]: the responses returned for r, in order

vars == <<pc, req, body, data, sent, upstream, resp>>

NoReq == [method |-> "", path |-> "", ctype |-> <<>>]
NoBody == [st |-> "none", bytes |-> <<>>]
NoAnswer == [st |-> "none", status |-> 0, err |-> <<>>, bytes |-> <<>>]

Response(status, msg, detail) == [status |-> status, msg |-> msg, detail |-> detail]

Init ==
    /\ pc = [r \in Reqs |-> "idle"]
    /\ req = [r \in Reqs |-> NoReq]
    /\ body = [r \in Reqs |-> NoBody]
    /\ data = [r \in Reqs |-> <<>>]
    /\ sent = [r \in Reqs |-> <<>>]
    /\ upstream = [r \in Reqs |-> NoAnswer]
    /\ resp = [r \in Reqs |-> <<>>]
\* ------------------------------------------------------------ the helpers

\* faulty variant: the method is not looked at
RouteMatches_PathOnly(rq) == rq.path = "/hello"

RouteMatches(rq) == rq.method = "POST" /\ rq.path = "/hello"

\* faulty variant: the media type is matched, its parameters are not
is_json_content_type_Prefix(rq) ==
    rq.ctype \in {<<"application/json">>, <<"application/json; charset=utf-8">>}

is_json_content_type(rq) == rq.ctype = <<"application/json">>

\* Result<Bytes, Response>: to_bytes gave `got`
read_body(got) ==
    IF got.st = "ok" THEN [ok |-> TRUE, bytes |-> got.bytes, resp |-> Response(0, "", <<>>)]
    ELSE [ok |-> FALSE, bytes |-> <<>>, resp |-> Response(400, "Failed to read body", <<>>)]

\* faulty variant: only an object is accepted
parse_json_ObjectOnly(bytes) ==
    LET r == FromSlice(bytes)
    IN  IF r.ok /\ r.val.t = "obj" THEN [ok |-> TRUE, val |-> r.val, resp |-> Response(0, "", <<>>)]
        ELSE [ok |-> FALSE, val |-> r.val, resp |-> Response(400, "Invalid JSON format", <<>>)]

\* faulty variant: a body that does not parse is forwarded as null
parse_json_Lenient(bytes) ==
    LET r == FromSlice(bytes)
    IN  IF r.ok THEN [ok |-> TRUE, val |-> r.val, resp |-> Response(0, "", <<>>)]
        ELSE [ok |-> TRUE, val |-> Lit(<<"n", "u", "l", "l">>), resp |-> Response(0, "", <<>>)]

\* Result<Value, Response>
parse_json(bytes) ==
    LET r == FromSlice(bytes)
    IN  IF r.ok THEN [ok |-> TRUE, val |-> r.val, resp |-> Response(0, "", <<>>)]
        ELSE [ok |-> FALSE, val |-> r.val, resp |-> Response(400, "Invalid JSON format", <<>>)]

\* faulty variant: the payload is sent wrapped in an array
OutboundBody_Wrapped(v) == ToVec(Arr(<<v>>))

\* the request forward_to_external_api builds: .json(data) is serde_json::to_vec
OutboundBody(v) == ToVec(v)

\* faulty variants: a failed send answered 500, a failed decode answered 200, and a
\* response that counts the requests served so far
SendFailed_500(e) == Response(500, "API request failed: ", e)
DecodeFailed_200 == Response(200, "Failed to decode API response", <<>>)
Relayed_Counting(json_resp) ==
    Response(200, "", PrettyAt(Arr(<<json_resp, Num(Cardinality({q \in Reqs : pc[q] = "done"}))>>), 0))

\* the arms of forward_to_external_api
SendFailed(e) == Response(502, "API request failed: ", e)
DecodeFailed == Response(502, "Failed to decode API response", <<>>)
Relayed(json_resp) ==
    LET s == ToStringPretty(json_resp)
    IN  IF s.ok THEN Response(200, "", s.s)
        ELSE Response(200, "Failed to serialize response", <<>>)

\* faulty variant: the response is produced and the task goes on
Return_KeepRunning(r, rsp) ==
    /\ resp' = [resp EXCEPT ![r] = Append(@, rsp)]
    /\ pc' = pc

\* handle_request returns rsp: the task of r ends
Return(r, rsp) ==
    /\ resp' = [resp EXCEPT ![r] = Append(@, rsp)]
    /\ pc' = [pc EXCEPT ![r] = "done"]

\* ------------------------------------------------------------ the actions
\* A request arrives and its task runs up to the first await (read_body)
HandleRequest(r, rq) ==
    /\ pc[r] = "idle"
    /\ req' = [req EXCEPT ![r] = rq]
    /\ IF RouteMatches(rq)
       THEN IF ~is_json_content_type(rq)
            THEN Return(r, Response(415, "Expected application/json", <<>>))
            ELSE pc' = [pc EXCEPT ![r] = "reading"] /\ UNCHANGED resp
       ELSE Return(r, Response(404, "Not Found", <<>>))
    /\ UNCHANGED <<body, data, sent, upstream>>

\* to_bytes completes with `got`; the task parses the body and starts the POST
BodyRead(r, got) ==
    /\ pc[r] = "reading"
    /\ body' = [body EXCEPT ![r] = got]
    /\ LET b == read_body(got)
       IN  IF ~b.ok THEN Return(r, b.resp) /\ UNCHANGED <<data, sent>>
           ELSE LET d == parse_json(b.bytes)
                IN  IF ~d.ok THEN Return(r, d.resp) /\ UNCHANGED <<data, sent>>
                    ELSE /\ data' = [data EXCEPT ![r] = <<d.val>>]
                         /\ sent' = [sent EXCEPT ![r] = Append(@, OutboundBody(d.val))]
                         /\ pc' = [pc EXCEPT ![r] = "sending"]
                         /\ UNCHANGED resp
    /\ UNCHANGED <<req, upstream>>

\* send() completes with Ok: the answer's status line and headers are in
SendOk(r, status) ==
    /\ pc[r] = "sending"
    /\ upstream' = [upstream EXCEPT ![r] = [NoAnswer EXCEPT !.st = "headers", !.status = status]]
    /\ pc' = [pc EXCEPT ![r] = "decoding"]
    /\ UNCHANGED <<req, body, data, sent, resp>>

\* send() completes with Err(e)
SendErr(r, e) ==
    /\ pc[r] = "sending"
    /\ upstream' = [upstream EXCEPT ![r] = [NoAnswer EXCEPT !.st = "neterr", !.err = e]]
    /\ Return(r, SendFailed(e))
    /\ UNCHANGED <<req, body, data, sent>>

\* faulty variant: an answer that does not decode makes the task wait for the POST again
JsonDecoded_Retry(r, bytes) ==
    /\ upstream' = [upstream EXCEPT ![r] = [@ EXCEPT !.st = "body", !.bytes = bytes]]
    /\ LET j == FromSlice(bytes)
       IN  IF j.ok THEN Return(r, Relayed(j.val))
           ELSE pc' = [pc EXCEPT ![r] = "sending"] /\ UNCHANGED resp
    /\ UNCHANGED <<req, body, data, sent>>

\* resp.json() completes: the answer's body is `bytes`, decoded as a Value
JsonDecoded(r, bytes) ==
    /\ upstream' = [upstream EXCEPT ![r] = [@ EXCEPT !.st = "body", !.bytes = bytes]]
    /\ LET j == FromSlice(bytes)
       IN  IF j.ok THEN Return(r, Relayed(j.val)) ELSE Return(r, DecodeFailed)
    /\ UNCHANGED <<req, body, data, sent>>

JsonRead(r) ==
    /\ pc[r] = "decoding"
    /\ \E bytes \in UpstreamBodies(sent[r][Len(sent[r])]) : JsonDecoded(r, bytes)

\* resp.json() completes with a transport error while the body streams in
JsonErr(r) ==
    /\ pc[r] = "decoding"
    /\ upstream' = [upstream EXCEPT ![r] = [@ EXCEPT !.st = "bodyerr"]]
    /\ Return(r, DecodeFailed)
    /\ UNCHANGED <<req, body, data, sent>>

Reads == {[st |-> "ok", bytes |-> b] : b \in Bodies} \cup {[st |-> "err", bytes |-> <<>>]}

\* the steps of the task of request r
Step(r) ==
    \/ \E rq \in Requests : HandleRequest(r, rq)
    \/ \E got \in Reads : BodyRead(r, got)
    \/ \E status \in UpstreamStatuses : SendOk(r, status)
    \/ \E e \in NetErrors : SendErr(r, e)
    \/ JsonRead(r)
    \/ JsonErr(r)

Next == \E r \in Reqs : Step(r)

Spec == Init /\ [][Next]_vars

\* the task of a request that has arrived is scheduled, and its I/O completes
Progress(r) == pc[r] # "idle" /\ Step(r)
LiveSpec == Spec /\ \A r \in Reqs : WF_vars(Progress(r))

\* ------------------------------------------------------------- properties
Local(r) == <<pc[r], req[r], body[r], data[r], sent[r], upstream[r], resp[r]>>
InFlight == {"reading", "sending", "decoding"}

RECURSIVE Rep(_, _)
Rep(c, n) == IF n = 0 THEN <<>> ELSE <<c>> \o Rep(c, n - 1)
\* The JSON texts among Bodies, stated without the parser: the samples, and over
\* BodyChars k opening brackets followed by k closing ones, k >= 1
WellFormed(s) ==
    \/ s \in SampleBodies
    \/ \E k \in 1..Len(s) : s = Rep("[", k) \o Rep("]", k)

\* C1: a request whose method is not POST or whose path is not /hello gets 404
\* "Not Found" as its only response, whatever its content-type, with no body read
\* and no outbound POST.
C1_NotFound ==
    \A r \in Reqs :
        (pc[r] # "idle" /\ (req[r].method # "POST" \/ req[r].path # "/hello")) =>
            /\ pc[r] = "done"
            /\ resp[r] = <<[status |-> 404, msg |-> "Not Found", detail |-> <<>>]>>
            /\ body[r].st = "none"
            /\ sent[r] = <<>>
            /\ upstream[r].st = "none"
C1_Witness ==
    \E r \in Reqs :
        /\ req[r] = [method |-> "GET", path |-> "/hello", ctype |-> <<>>]
        /\ Len(resp[r]) = 1 /\ resp[r][1].status = 404

\* C2: a POST /hello whose content-type is missing or differs from
\* application/json gets 415 as its only response, before any body is read, and
\* no outbound POST is made.
C2_UnsupportedMediaType ==
    \A r \in Reqs :
        (/\ pc[r] # "idle" /\ req[r].method = "POST" /\ req[r].path = "/hello"
         /\ req[r].ctype # <<"application/json">>) =>
            /\ pc[r] = "done"
            /\ Len(resp[r]) = 1 /\ resp[r][1].status = 415
            /\ body[r].st = "none"
            /\ sent[r] = <<>>
            /\ upstream[r].st = "none"
C2_Witness ==
    \E r, q \in Reqs :
        /\ req[r] = [method |-> "POST", path |-> "/hello",
                     ctype |-> <<"application/json; charset=utf-8">>]
        /\ Len(resp[r]) = 1 /\ resp[r][1].status = 415
        /\ req[q] = [method |-> "POST", path |-> "/hello", ctype |-> <<>>]
        /\ Len(resp[q]) = 1 /\ resp[q][1].status = 415

C4_Relay ==
    \A r \in Reqs :
        (/\ pc[r] = "done" /\ body[r].st = "ok" /\ WellFormed(body[r].bytes)
         /\ upstream[r].st = "body" /\ FromSlice(upstream[r].bytes).ok) =>
            /\ Len(resp[r]) = 1
            /\ resp[r][1].status = 200
            /\ resp[r][1].msg = ""
            /\ FromSlice(resp[r][1].detail).ok
            /\ FromSlice(resp[r][1].detail).val = FromSlice(upstream[r].bytes).val
            /\ Len(sent[r]) = 1
            /\ FromSlice(sent[r][1]).ok
            /\ FromSlice(sent[r][1]).val = FromSlice(body[r].bytes).val
            /\ upstream[r].bytes = EchoReply(sent[r][1]) =>
                 FromSlice(resp[r][1].detail).val = Obj(<<[k |-> <<"d", "a", "t", "a">>,
                                                         val |-> FromSlice(body[r].bytes).val]>>)
C4_Witness ==
    \E r \in Reqs :
        /\ pc[r] = "done"
        /\ body[r] = [st |-> "ok", bytes |-> <<"{", QUOTE, "a", QUOTE, ":", "1", "}">>]
        /\ upstream[r].st = "body" /\ upstream[r].status = 200
        /\ resp[r][1].status = 200
        /\ resp[r][1].detail # upstream[r].bytes

\* C5 as stated: when the upstream is unreachable (send() fails) or erroring (it
\* answers with a 5xx status), the response is 502 and starts with "API request
\* failed:".
C5_ErroringUpstream ==
    \A r \in Reqs :
        (pc[r] = "done" /\ (upstream[r].st = "neterr" \/ upstream[r].status >= 500)) =>
            /\ resp[r][1].status = 502
            /\ resp[r][1].msg = "API request failed: "
\* C5 as amended: when send() fails, the response is 502 "API request failed: "
\* followed by the error's text; an answer with a 5xx status is no failure of
\* send(), and its body is decoded and relayed like that of any answer.
C5_TransportFailure ==
    \A r \in Reqs :
        /\ upstream[r].st = "neterr" =>
            /\ pc[r] = "done"
            /\ resp[r] = <<[status |-> 502, msg |-> "API request failed: ",
                            detail |-> upstream[r].err]>>
        /\ (pc[r] = "done" /\ upstream[r].st = "body" /\ upstream[r].status >= 500) =>
            /\ Len(resp[r]) = 1
            /\ resp[r][1].msg # "API request failed: "
            /\ resp[r][1].status = (IF FromSlice(upstream[r].bytes).ok THEN 200 ELSE 502)
C5_Witness ==
    \E r, q \in Reqs :
        /\ upstream[r].st = "neterr" /\ upstream[r].err = <<"d", "n", "s">>
        /\ resp[r][1].status = 502
        /\ upstream[q].st = "body" /\ upstream[q].status = 500
        /\ resp[q][1].status = 200

\* C6: when the outbound POST completes but the answer's body cannot be read or
\* is no JSON text, the response is 502 "Failed to decode API response".
C6_DecodeFailure ==
    \A r \in Reqs :
        (\/ upstream[r].st = "bodyerr"
         \/ upstream[r].st = "body" /\ ~FromSlice(upstream[r].bytes).ok) =>
            /\ pc[r] = "done"
            /\ resp[r] = <<[status |-> 502, msg |-> "Failed to decode API response",
                            detail |-> <<>>]>>
C6_Witness ==
    \E r, q \in Reqs :
        /\ upstream[r].st = "body" /\ upstream[r].bytes = <<"<">> /\ upstream[r].status = 200
        /\ resp[r][1].status = 502
        /\ upstream[q].st = "bodyerr"
        /\ resp[q][1].status = 502

\* C7: a request has at most one response, it has one exactly when its task has
\* ended, the status of a response is 404, 415, 400, 502 or 200, a task is idle,
\* at one of its three await points or ended, and a request that has its response
\* takes no further step.
C7_Terminal ==
    /\ [](\A r \in Reqs :
            /\ pc[r] \in {"idle", "done"} \cup InFlight
            /\ Len(resp[r]) <= 1
            /\ (pc[r] = "done") <=> (Len(resp[r]) = 1)
            /\ \A i \in 1..Len(resp[r]) : resp[r][i].status \in {404, 415, 400, 502, 200})
    /\ [][\A r \in Reqs : pc[r] = "done" => Local(r)' = Local(r)]_vars
C7_Witness ==
    \E r, q \in Reqs :
        /\ pc[r] = "done" /\ resp[r][1].status = 400 /\ body[r].st = "err"
        /\ pc[q] = "done" /\ resp[q][1].status = 502

\* C8: two requests with the same method, path and content-type, the same body
\* read and the same upstream answer are in the same state with the same
\* response, whatever else the server has handled; a step of one request changes
\* nothing of another; and a request that has no response yet can take a step
\* whatever the others are doing.
C8_NoSharedState ==
    /\ [](\A r, q \in Reqs :
            (req[r] = req[q] /\ body[r] = body[q] /\ upstream[r] = upstream[q]) =>
                Local(r) = Local(q))
    /\ [](\A r \in Reqs : pc[r] # "done" => ENABLED Step(r))
    /\ [][\A r, q \in Reqs : (r # q /\ Local(r)' # Local(r)) => Local(q)' = Local(q)]_vars
C8_Witness ==
    \E r, q \in Reqs :
        /\ r # q
        /\ req[r] = req[q] /\ body[r] = body[q] /\ upstream[r] = upstream[q]
        /\ pc[r] = "done" /\ resp[r][1].status = 200
        /\ resp[q] = resp[r]

\* C9: with every await that completes (body read, send, answer body) completing
\* eventually, a request that has arrived eventually has its response; a request
\* whose POST is not answered stays waiting for it, without a response, in every
\* step (no timeout, no cancellation), and meanwhile every other request in
\* flight can take its step.
C9_Completion ==
    /\ \A r \in Reqs : (pc[r] \in InFlight) ~> (pc[r] = "done")
    /\ [][\A r \in Reqs :
            (pc[r] = "sending" /\ upstream[r]' = upstream[r]) =>
                (pc[r]' = "sending" /\ resp[r]' = <<>>)]_vars
    /\ [](\A r, q \in Reqs :
            (pc[r] = "sending" /\ pc[q] \in InFlight) => ENABLED Progress(q))
C9_Witness ==
    \E r, q \in Reqs :
        /\ pc[r] = "sending" /\ upstream[r].st = "none" /\ resp[r] = <<>>
        /\ pc[q] = "done" /\ resp[q][1].status = 200

\* C10: at most one outbound POST is made for a request, and only after the
\* route, then the content-type, then the read of the body, then its parse have
\* passed; a request answered 404, 415 or 400 has made none, and one answered
\* 502 or 200 has made exactly one.
C10_OneCallAfterValidation ==
    \A r \in Reqs :
        /\ Len(sent[r]) <= 1
        /\ body[r].st # "none" =>
            (req[r].method = "POST" /\ req[r].path = "/hello"
             /\ req[r].ctype = <<"application/json">>)
        /\ data[r] # <<>> => (body[r].st = "ok" /\ WellFormed(body[r].bytes))
        /\ sent[r] # <<>> => (data[r] # <<>> /\ sent[r][1] = ToVec(data[r][1]))
        /\ upstream[r].st # "none" => Len(sent[r]) = 1
        /\ \A i \in 1..Len(resp[r]) :
            /\ resp[r][i].status \in {404, 415, 400} => sent[r] = <<>>
            /\ resp[r][i].status \in {502, 200} => Len(sent[r]) = 1
C10_Witness ==
    \E r, q \in Reqs :
        /\ pc[r] = "done" /\ resp[r][1].status = 400 /\ body[r].st = "ok" /\ sent[r] = <<>>
        /\ pc[q] = "done" /\ resp[q][1].status = 502 /\ Len(sent[q]) = 1
====
